---- MODULE Spec2Model ----
(***************************************************************************)
(* Model of the section-processing workflow of the portfolio report agent: *)
(* PortfolioAnalysisGraph (graphs/main_graph.py) and the stage nodes       *)
(* (agents/extractor.py, writer.py, table_generator.py,                    *)
(* graph_generator.py).  The workflow graph is executed the way the graph  *)
(* library executes it: in supersteps.  Every node scheduled for a         *)
(* superstep reads the state as it was when the superstep began, the       *)
(* routing function of a node is evaluated right after the node on that    *)
(* state plus the node's own update, and the updates of all nodes of the   *)
(* superstep are applied together when the superstep ends.                 *)
(***************************************************************************)
EXTENDS Integers, Sequences, FiniteSets, TLC

\* ---------------------------------------------------------------- bounds
MaxLoops == 2        \* max_review_loops ranges over 0..MaxLoops
NumSections == 2     \* a run is asked for at most NumSections sections

\* ------------------------------------------------------------- constants
\* graph.stream() is called without a config (main_graph.py:223), so the
\* library's default bound on the number of supersteps applies.
RecursionLimit == 25

\* ------------------------------------------------------------ vocabulary
Nodes == {"extractor", "reviewer", "writer", "table_generator", "graph_generator"}

None == <<>>                 \* Python None / an absent value, as a 0-tuple
Some(x) == <<x>>             \* a present value, as a 1-tuple

\* The section records a caller may pass (title, instruction).
NoTitle == [title |-> "", instruction |-> ""]
Overview == [title |-> "Overview", instruction |-> "Be concise."]
Risks == [title |-> "Risks", instruction |-> ""]

RECURSIVE SeqsUpTo(_, _)
SeqsUpTo(S, n) ==
    IF n = 0 THEN { <<>> }
    ELSE LET shorter == SeqsUpTo(S, n - 1)
         IN  shorter \cup { Append(s, x) : s \in { t \in shorter : Len(t) = n - 1 }, x \in S }

\* The section lists a caller may pass: up to NumSections records, the first
\* of them Overview or the record without a title (the two titles are
\* interchangeable until a second section makes them equal or different).
SectionLists ==
    { l \in SeqsUpTo({NoTitle, Overview, Risks}, NumSections) :
        Len(l) >= 1 => l[1] # Risks }

\* The document sets a caller may pass: none, or one loaded document.
DocumentSets ==
    { <<>>,
      << [filename |-> "a.txt", content |-> "Revenue was $100M."] >> }

\* What the model call of each stage may come back with.  ok = FALSE is a
\* failed call or a response that does not parse (the stage's except branch).
Failure == [ok |-> FALSE, content |-> "", references |-> <<>>]

\* What the extractor's call gives: no parsed answer, or a parsed JSON object
\* in which each of the keys content and references is present or missing.
ExtractionFailure == [ok |-> FALSE, content |-> None, references |-> None]

ExtractorResponses ==
    { ExtractionFailure,
      [ok |-> TRUE, content |-> None,          references |-> None],
      [ok |-> TRUE, content |-> None,          references |-> Some(<< "a.txt p1" >>)],
      [ok |-> TRUE, content |-> Some(""),      references |-> Some(<<>>)],
      [ok |-> TRUE, content |-> Some("draft"), references |-> None],
      [ok |-> TRUE, content |-> Some("draft"), references |-> Some(<< "a.txt p1" >>)] }

\* dict.get(key, default) on a key that is present (Some) or missing (None)
get(value, default) == IF value = None THEN default ELSE value[1]

WriterResponses ==
    { Failure,
      [ok |-> TRUE, content |-> "",          references |-> <<>>],
      [ok |-> TRUE, content |-> "rewritten", references |-> << "a.txt p2" >>] }

Critique(e, r, t) == [expand_on |-> e, remove_or_rephrase |-> r, search_terms |-> t]

Critiques ==
    { Critique(<<>>, <<>>, <<>>),
      Critique(<<>>, <<>>, << "margin" >>),
      Critique(<< "add margin detail" >>, <<>>, << "margin" >>),
      Critique(<<>>, << "The company is good." >>, <<>>),
      Critique(<< "add margin detail" >>, << "The company is good." >>, << "margin" >>) }

NoCritiqueResponse == [ok |-> FALSE, critique |-> None]

ReviewerResponses ==
    { NoCritiqueResponse } \cup { [ok |-> TRUE, critique |-> Some(c)] : c \in Critiques }

EmptyTable == [title |-> "", rows |-> <<>>]
SomeTable == [title |-> "Highlights", rows |-> << "row" >>]

NoTableResponse == [ok |-> FALSE, table |-> EmptyTable]

TableResponses ==
    { NoTableResponse } \cup { [ok |-> TRUE, table |-> t] : t \in {EmptyTable, SomeTable} }

EmptyGraph == [title |-> "", type |-> "none"]
SomeGraph == [title |-> "Revenue", type |-> "bar"]

NoGraphResponse == [ok |-> FALSE, graph |-> EmptyGraph]

GraphResponses ==
    { NoGraphResponse } \cup { [ok |-> TRUE, graph |-> g] : g \in {EmptyGraph, SomeGraph} }

\* The llm argument of run_analysis.  AnyLLM is a model whose calls may
\* return anything or fail.  A stub is deterministic and never fails: its
\* reviews follow a script ("actionable_then_empty": the first review names
\* something to expand on, every later one returns the empty critique;
\* "empty": every review returns the empty critique) and it returns one fixed
\* table and one fixed graph.
AnyLLM == [script |-> "any", table |-> EmptyTable, graph |-> EmptyGraph]

\* A model whose extraction calls always fail (the call raises or the answer
\* does not parse) and whose table and graph calls succeed; its reviews and
\* rewrites may return anything or fail.
NoExtractionLLM == [script |-> "no_extraction", table |-> SomeTable, graph |-> SomeGraph]

LLMs == {AnyLLM, NoExtractionLLM}

StubLLMs ==
    { [script |-> sc, table |-> t, graph |-> g] :
        sc \in {"actionable_then_empty", "empty"},
        t \in {EmptyTable, SomeTable},
        g \in {EmptyGraph, SomeGraph} }

ExtractorReplies(l) ==
    IF l.script = "any" THEN ExtractorResponses
    ELSE IF l.script = "no_extraction" THEN { ExtractionFailure }
    ELSE { r \in ExtractorResponses : r.ok /\ get(r.content, "") # "" }

\* nth: the number of reviews of the section made before this one.
ReviewerReplies(l, nth) ==
    IF l.script \in {"any", "no_extraction"} THEN ReviewerResponses
    ELSE IF l.script = "actionable_then_empty" /\ nth = 0
         THEN { r \in ReviewerResponses : r.ok /\ r.critique[1].expand_on # <<>> }
         ELSE { [ok |-> TRUE, critique |-> Some(Critique(<<>>, <<>>, <<>>))] }

WriterReplies(l) ==
    IF l.script \in {"any", "no_extraction"} THEN WriterResponses
    ELSE { r \in WriterResponses : r.ok /\ r.content # "" }

TableReplies(l) ==
    IF l.script = "any" THEN TableResponses
    ELSE { [ok |-> TRUE, table |-> l.table] }

GraphReplies(l) ==
    IF l.script = "any" THEN GraphResponses
    ELSE { [ok |-> TRUE, graph |-> l.graph] }

\* ----------------------------------------------------------------- state
VARIABLES
    llm,                 \* run_analysis argument
    max_review_loops,    \* PortfolioAnalysisGraph.max_review_loops
    loaded_docs,         \* run_analysis argument
    sections,            \* run_analysis argument
    pc,                  \* position of run_analysis
    idx,                 \* index of section_info in the for loop (1-based)
    state,               \* AgentState of the section being streamed
    tasks,               \* nodes of the current superstep that have not run yet
    writes,              \* node -> what it returned in the current superstep
    triggered,           \* nodes scheduled so far for the next superstep
    step,                \* supersteps completed for the current section
    calls,               \* node -> invocations in the current section
    completed_sections,  \* initial_state["completed_sections"]
    finalized_section,   \* the record being yielded, None otherwise
    probe,               \* a direct call of a node's method and what it gave
    report               \* the JSON file run_portfolio_analysis writes

vars == << llm, max_review_loops, loaded_docs, sections, pc, idx, state, tasks,
           writes, triggered, step, calls, completed_sections, finalized_section,
          probe, report >>

StateKeys ==
    { "current_section", "current_section_instruction",
      "current_section_content", "current_section_references",
      "critique", "loop_count", "tabular_data", "graph_specs" }

\* initial_state of run_analysis; the content and references keys are absent
\* there and every reader uses .get(key, "") / .get(key, []).
InitialState ==
    [ current_section             |-> "",
      current_section_instruction |-> "",
      current_section_content     |-> "",
      current_section_references  |-> <<>>,
      critique                    |-> None,
      loop_count                  |-> 0,
      tabular_data                |-> None,
      graph_specs                 |-> <<>> ]

NoWrite == [view |-> InitialState, keys |-> {}, ran |-> FALSE, raised |-> FALSE, ok |-> FALSE]
NoWrites == [n \in Nodes |-> NoWrite]
NoCalls == [n \in Nodes |-> 0]

\* A node's result: the state as the node's routing function sees it (the
\* superstep's state with the node's own update applied) and the keys the
\* update carries ("messages", the log, is a key no node and no router
\* reads).  ok records whether the node's model call came back with an answer.
Returned(view, keys) ==
    [view |-> view, keys |-> keys, ran |-> TRUE, raised |-> FALSE, ok |-> TRUE]
Raised(view) ==
    [view |-> view, keys |-> {}, ran |-> TRUE, raised |-> TRUE, ok |-> TRUE]


Actionable(critique) ==
    /\ critique # None
    /\ \/ critique[1].expand_on # <<>>
       \/ critique[1].remove_or_rephrase # <<>>

\* ---------------------------------------------------------- stage nodes
\* extract with a failure branch that stores a placeholder as the content.
extract_placeholder_on_failure(s, resp) ==
    IF s.current_section = "" \/ loaded_docs = <<>>
    THEN Raised(s)
    ELSE IF resp.ok
         THEN Returned([s EXCEPT !.current_section_content = get(resp.content, ""),
                                 !.current_section_references = get(resp.references, <<>>)],
                       {"current_section_content", "current_section_references",
                        "messages"})
         ELSE Returned([s EXCEPT !.current_section_content = "draft"],
                       {"current_section_content", "messages"})

\* The text the extractor's prompt asks the model to use as content when it
\* finds nothing.
NoInformationText == "No information found for this section."

\* extract that falls back to the prompt's text when content is missing.
extract_default_from_prompt(s, resp) ==
    IF s.current_section = "" \/ loaded_docs = <<>>
    THEN Raised(s)
    ELSE IF resp.ok
         THEN Returned([s EXCEPT !.current_section_content =
                                     get(resp.content, NoInformationText),
                                 !.current_section_references = get(resp.references, <<>>)],
                       {"current_section_content", "current_section_references",
                        "messages"})
         ELSE Returned(s, {"messages"})

\* extract without the test of the title.
extract_any_title(s, resp) ==
    IF loaded_docs = <<>>
    THEN Raised(s)
    ELSE IF resp.ok
         THEN Returned([s EXCEPT !.current_section_content = get(resp.content, ""),
                                 !.current_section_references = get(resp.references, <<>>)],
                       {"current_section_content", "current_section_references",
                        "messages"})
         ELSE Returned(s, {"messages"})

\* ExtractorNode.extract
extract(s, resp) ==
    IF s.current_section = "" \/ loaded_docs = <<>>
    THEN Raised(s)
    ELSE IF resp.ok
         THEN Returned([s EXCEPT !.current_section_content = get(resp.content, ""),
                                 !.current_section_references = get(resp.references, <<>>)],
                       {"current_section_content", "current_section_references",
                        "messages"})
         ELSE Returned(s, {"messages"})

\* Whether ExtractorNode.extract gets as far as self.llm.invoke.
extract_invokes_llm(s) ==
    /\ s.current_section # ""
    /\ loaded_docs # <<>>

\* ReviewerNode.review: rejects empty content, otherwise stores the critique
\* the model returned; a failed call contributes nothing but a message.
review(s, resp) ==
    IF s.current_section_content = ""
    THEN Returned(s, {"messages"})
    ELSE IF resp.ok
         THEN Returned([s EXCEPT !.critique = resp.critique], {"critique", "messages"})
         ELSE Returned(s, {"messages"})

\* rewrite with a failure branch that counts the failed attempt.
rewrite_counts_failure(s, resp) ==
    IF s.current_section = ""
    THEN Raised(s)
    ELSE IF s.critique = None \/ s.current_section_content = ""
         THEN Returned(s, {"messages"})
         ELSE IF resp.ok
              THEN Returned([s EXCEPT !.current_section_content = resp.content,
                                      !.current_section_references = resp.references,
                                      !.loop_count = s.loop_count + 1],
                            {"current_section_content", "current_section_references",
                             "loop_count", "messages"})
              ELSE Returned([s EXCEPT !.loop_count = s.loop_count + 1],
                            {"loop_count", "messages"})

\* rewrite that stores the new content and keeps the old references.
rewrite_content_only(s, resp) ==
    IF s.current_section = ""
    THEN Raised(s)
    ELSE IF s.critique = None \/ s.current_section_content = ""
         THEN Returned(s, {"messages"})
         ELSE IF resp.ok
              THEN Returned([s EXCEPT !.current_section_content = resp.content,
                                      !.loop_count = s.loop_count + 1],
                            {"current_section_content", "loop_count", "messages"})
              ELSE Returned(s, {"messages"})

\* rewrite that counts a skipped rewrite as a loop.
rewrite_counts_skip(s, resp) ==
    IF s.current_section = ""
    THEN Raised(s)
    ELSE IF s.critique = None \/ s.current_section_content = ""
         THEN Returned([s EXCEPT !.loop_count = s.loop_count + 1],
                       {"loop_count", "messages"})
         ELSE IF resp.ok
              THEN Returned([s EXCEPT !.current_section_content = resp.content,
                                      !.current_section_references = resp.references,
                                      !.loop_count = s.loop_count + 1],
                            {"current_section_content", "current_section_references",
                             "loop_count", "messages"})
              ELSE Returned(s, {"messages"})

\* rewrite that adds the new references to the old ones.
rewrite_merges_references(s, resp) ==
    IF s.current_section = ""
    THEN Raised(s)
    ELSE IF s.critique = None \/ s.current_section_content = ""
         THEN Returned(s, {"messages"})
         ELSE IF resp.ok
              THEN Returned([s EXCEPT !.current_section_content = resp.content,
                                      !.current_section_references =
                                          s.current_section_references \o resp.references,
                                      !.loop_count = s.loop_count + 1],
                            {"current_section_content", "current_section_references",
                             "loop_count", "messages"})
              ELSE Returned(s, {"messages"})

\* WriterNode.rewrite
rewrite(s, resp) ==
    IF s.current_section = ""
    THEN Raised(s)
    ELSE IF s.critique = None \/ s.current_section_content = ""
         THEN Returned(s, {"messages"})
         ELSE IF resp.ok
              THEN Returned([s EXCEPT !.current_section_content = resp.content,
                                      !.current_section_references = resp.references,
                                      !.loop_count = s.loop_count + 1],
                            {"current_section_content", "current_section_references",
                             "loop_count", "messages"})
              ELSE Returned(s, {"messages"})

\* generate_table that appends the table to the section's content.
generate_table_into_content(s, resp) ==
    IF resp.ok
    THEN Returned([s EXCEPT !.current_section_content = "draft"],
                  {"current_section_content", "completed_sections"})
    ELSE Returned(s, {})

\* TableGeneratorNode.generate_table: the update carries completed_sections only.
generate_table(s, resp) ==
    IF resp.ok THEN Returned(s, {"completed_sections"}) ELSE Returned(s, {})

\* The loop of generate_table over completed_sections: every record whose
\* title is the current one has its tabular_data assigned in place.
AssignTables(completed, title, table) ==
    [i \in DOMAIN completed |->
        IF completed[i].section = title
        THEN [completed[i] EXCEPT !.tabular_data = Some(table)]
        ELSE completed[i]]

\* The tabular_data generate_graph puts into its model call: the value of
\* the state's key.
graph_tabular_data(s) == s.tabular_data

\* GraphGeneratorNode.generate_graph: the update carries completed_sections only.
generate_graph(s, resp) ==
    IF resp.ok THEN Returned(s, {"completed_sections"}) ELSE Returned(s, {})

\* --------------------------------------------------------------- routers
_decide_next_step_after_extraction(s) == "review"

\* Variants of the router after the review, each with one condition changed.
_decide_next_step_after_review_any_list(s) ==
    IF /\ s.critique # None
       /\ \/ s.critique[1].expand_on # <<>>
          \/ s.critique[1].remove_or_rephrase # <<>>
          \/ s.critique[1].search_terms # <<>>
       /\ s.loop_count < max_review_loops
    THEN "rewrite"
    ELSE "table_generation"

_decide_next_step_after_review_no_budget(s) ==
    IF Actionable(s.critique)
    THEN "rewrite"
    ELSE "table_generation"

_decide_next_step_after_review_through_budget(s) ==
    IF Actionable(s.critique) /\ s.loop_count <= max_review_loops
    THEN "rewrite"
    ELSE "table_generation"

_decide_next_step_after_review_any_critique(s) ==
    IF s.critique # None /\ s.loop_count < max_review_loops
    THEN "rewrite"
    ELSE "table_generation"

_decide_next_step_after_review(s) ==
    IF Actionable(s.critique) /\ s.loop_count < max_review_loops
    THEN "rewrite"
    ELSE "table_generation"

\* Variant of the router after the writer that reviews once more when the
\* budget has just been used up.
_decide_next_step_after_writer_through_budget(s) ==
    IF s.loop_count <= max_review_loops
    THEN "review"
    ELSE "table_generation"

_decide_next_step_after_writer(s) ==
    IF s.loop_count < max_review_loops
    THEN "review"
    ELSE "table_generation"

\* _build_graph: the nodes a node schedules for the next superstep, the
\* target of its conditional edge together with the targets of its plain edges.
_build_graph(node, s) ==
    CASE node = "extractor" ->
            IF _decide_next_step_after_extraction(s) = "review" THEN {"reviewer"} ELSE {}
      [] node = "reviewer" ->
            IF _decide_next_step_after_review(s) = "rewrite"
            THEN {"writer"} ELSE {"table_generator"}
      [] node = "writer" ->
            (IF _decide_next_step_after_writer(s) = "review"
             THEN {"reviewer"} ELSE {"table_generator"})
            \cup {"table_generator"}
      [] node = "table_generator" -> {"graph_generator"}
      [] node = "graph_generator" -> {}

\* ------------------------------------------- the Writer's targeted search
\* Text is a sequence of characters, so that case folding, substring search
\* and slicing are computed and not assumed.
MaxTextLen == 2
MaxTermLen == 1
MaxTerms == 2
MaxDocs == 2

\* content[:200]
SnippetLen == 200

Alphabet == {"a", "A", "b"}

\* A text longer than a snippet, whose last character occurs nowhere else.
LongText == [i \in 1..(SnippetLen + 1) |-> IF i <= SnippetLen THEN "a" ELSE "b"]

Texts == SeqsUpTo(Alphabet, MaxTextLen) \cup {LongText}
Terms == SeqsUpTo(Alphabet, MaxTermLen)
FileNames == << "a.txt", "b.txt", "c.txt" >>

SearchDocumentSets ==
    UNION { { [i \in 1..n |-> [filename |-> FileNames[i], content |-> c[i]]] :
                c \in [1..n -> Texts] } : n \in 0..MaxDocs }

TermLists == SeqsUpTo(Terms, MaxTerms)

\* str.lower
lower(text) ==
    [i \in DOMAIN text |-> IF text[i] = "A" THEN "a" ELSE text[i]]

\* needle in hay
In(needle, hay) ==
    \E i \in 0..(Len(hay) - Len(needle)) : SubSeq(hay, i + 1, i + Len(needle)) = needle

\* text[:n]
Slice(text, n) == SubSeq(text, 1, IF Len(text) < n THEN Len(text) ELSE n)

\* f"Found '{term}' in {filename}:\n{content[:200]}..."
FoundEntry(term, doc) ==
    [term |-> term, filename |-> doc.filename, snippet |-> Slice(doc.content, SnippetLen)]

RECURSIVE ForDocuments(_, _, _)
\* for doc in documents (from the i-th on), for one term
ForDocuments(term, documents, i) ==
    IF i > Len(documents) THEN <<>>
    ELSE (IF In(lower(term), lower(documents[i].content))
          THEN << FoundEntry(term, documents[i]) >>
          ELSE <<>>) \o ForDocuments(term, documents, i + 1)

RECURSIVE ForTerms(_, _, _)
\* for term in search_terms (from the j-th on)
ForTerms(search_terms, documents, j) ==
    IF j > Len(search_terms) THEN <<>>
    ELSE ForDocuments(search_terms[j], documents, 1)
            \o ForTerms(search_terms, documents, j + 1)

RECURSIVE ForDocumentsFirst(_, _, _)
\* the two loops nested the other way round: for doc, then for term
ForDocumentsFirst(search_terms, documents, i) ==
    IF i > Len(documents) THEN <<>>
    ELSE SelectSeq([j \in DOMAIN search_terms |-> FoundEntry(search_terms[j], documents[i])],
                   LAMBDA e : In(lower(e.term), lower(documents[i].content)))
            \o ForDocumentsFirst(search_terms, documents, i + 1)

NoTermsText == "No specific search terms provided."
NothingFoundText == "No new information found for search terms."

\* What _perform_targeted_search returns: the entries it found, which it
\* joins with newlines, or one of two fixed texts when there is none.
NewInformation(found_info, text) == [found_info |-> found_info, text |-> text]

\* The search with its loops nested the other way round.
_perform_targeted_search_by_document(documents, search_terms) ==
    IF search_terms = <<>>
    THEN NewInformation(<<>>, NoTermsText)
    ELSE LET found_info == ForDocumentsFirst(search_terms, documents, 1)
         IN  IF found_info # <<>>
             THEN NewInformation(found_info, "")
             ELSE NewInformation(<<>>, NothingFoundText)

\* WriterNode._perform_targeted_search
_perform_targeted_search(documents, search_terms) ==
    IF search_terms = <<>>
    THEN NewInformation(<<>>, NoTermsText)
    ELSE LET found_info == ForTerms(search_terms, documents, 1)
         IN  IF found_info # <<>>
             THEN NewInformation(found_info, "")
             ELSE NewInformation(<<>>, NothingFoundText)

\* The type of the message WriterNode.rewrite appends to the log.
rewrite_message(s, resp) ==
    IF s.current_section = "" THEN "none"
    ELSE IF s.critique = None THEN "info"
    ELSE IF s.current_section_content = "" THEN "error"
    ELSE IF resp.ok THEN "tool_output"
    ELSE "error"

\* Whether WriterNode.rewrite gets as far as self.chain.invoke.
rewrite_invokes_chain(s) ==
    /\ s.current_section # ""
    /\ s.critique # None
    /\ s.current_section_content # ""

\* No Writer method has been called directly.
NoProbe ==
    [op |-> "none", resp |-> Failure, invoked |-> FALSE, message |-> "none",
     documents |-> <<>>, search_terms |-> <<>>,
     new_information |-> NewInformation(<<>>, "")]

\* What run_portfolio_analysis writes to the report file, piece by piece:
\* "[\n", ",\n", json.dump(section_report) and "\n]\n".
Piece(kind, object) == [kind |-> kind, object |-> object]
OpenBracket == Piece("[", None)
Comma == Piece(",", None)
CloseBracket == Piece("]", None)
Dumped(section_report) == Piece("object", Some(section_report))

\* No report file: run_analysis is not being consumed by run_portfolio_analysis.
NoReport == [open |-> FALSE, first_section |-> TRUE, text |-> <<>>]

\* run_agent.py: the section list run_portfolio_analysis passes on when its
\* caller gives none.
DEFAULT_SECTIONS_TO_ANALYZE ==
    <<
       [ name |-> "Executive Summary",
         section_instructions |->
             "Highlight the key investment thesis for the company and summarize the main financial and operating metrics. Keep it focused with each sub_section being 3-4 lines only",
         include_table |-> TRUE,
         table_instructions |-> "",
         include_graphs |-> TRUE,
         graph_instructions |-> "" ],
       [ name |-> "Overview",
         section_instructions |->
             "Provide a brief overview of the company, including its history, mission, and key products or services. Also include founder and key management.",
         include_table |-> TRUE,
         table_instructions |-> "",
         include_graphs |-> FALSE,
         graph_instructions |-> "" ],
       [ name |-> "Strategic Insights",
         section_instructions |->
             "Summarize the strategic insights from the annual report, focusing on the company's long-term vision and strategic initiatives. Do not generate markdown tables, just text",
         include_table |-> FALSE,
         table_instructions |-> "",
         include_graphs |-> TRUE,
         graph_instructions |-> "" ],
       [ name |-> "Financial Review",
         section_instructions |->
             "Analyze the financial performance of the company, including revenue, profit margins, and key financial ratios. Do not generate markdown tables, just text.",
         include_table |-> TRUE,
         table_instructions |-> "",
         include_graphs |-> TRUE,
         graph_instructions |-> "" ],
       [ name |-> "Risks",
         section_instructions |->
             "Identify and analyze the key risks facing the company, including market, operational, and financial risks.",
         include_table |-> TRUE,
         table_instructions |-> "",
         include_graphs |-> FALSE,
         graph_instructions |-> "" ]
    >>

\* section_info["title"] and section_info["instruction"] can be read.
HasKeys(section_info) == {"title", "instruction"} \subseteq DOMAIN section_info

\* ------------------------------------------------------------------ Init
Init ==
    /\ llm \in LLMs
    /\ max_review_loops \in 0..MaxLoops
    /\ loaded_docs \in DocumentSets
    /\ \/ sections \in SectionLists
       \/ /\ sections = DEFAULT_SECTIONS_TO_ANALYZE
          /\ loaded_docs # <<>>
          /\ max_review_loops = 1
    /\ pc = "start"
    /\ idx = 1
    /\ state = InitialState
    /\ tasks = {}
    /\ writes = NoWrites
    /\ triggered = {}
    /\ step = 0
    /\ calls = NoCalls
    /\ completed_sections = <<>>
    /\ finalized_section = None
    /\ probe = NoProbe
    /\ report = NoReport

\* --------------------------------------------------------------- actions
\* Variant of StartAnalysis without the test for an empty document set.
StartAnalysis_no_test ==
    /\ pc = "start"
    /\ pc' = "loop"
    /\ UNCHANGED << report, probe, llm, max_review_loops, loaded_docs, sections, idx, state, tasks,
                    writes, triggered, step, calls, completed_sections,
                    finalized_section >>

\* run_analysis up to the for loop.  Its caller run_portfolio_analysis, which
\* has documents whenever it gets this far, has opened the report file and
\* written the opening bracket.
StartAnalysis ==
    /\ pc = "start"
    /\ pc' = IF loaded_docs = <<>> THEN "finished" ELSE "loop"
    /\ report' = IF loaded_docs = <<>> THEN report
                 ELSE [open |-> TRUE, first_section |-> TRUE, text |-> << OpenBracket >>]
    /\ UNCHANGED << probe, llm, max_review_loops, loaded_docs, sections, idx, state, tasks,
                    writes, triggered, step, calls, completed_sections,
                    finalized_section >>

\* Variant of StartSection that does not wait for the consumer: the next
\* section is started while the record of the current one is being yielded.
StartSection_before_resume ==
    /\ pc \in {"loop", "yielded"}
    /\ idx' = IF pc = "loop" THEN idx ELSE idx + 1
    /\ idx' <= Len(sections)
    /\ IF HasKeys(sections[idx'])
       THEN /\ state' = [InitialState EXCEPT
                            !.current_section = sections[idx'].title,
                            !.current_section_instruction = sections[idx'].instruction]
            /\ tasks' = {"extractor"}
            /\ pc' = "streaming"
       ELSE /\ pc' = "crashed"
            /\ UNCHANGED << state, tasks >>
    /\ writes' = NoWrites
    /\ triggered' = {}
    /\ step' = 0
    /\ calls' = NoCalls
    /\ UNCHANGED << report, probe, llm, max_review_loops, loaded_docs, sections,
                    completed_sections, finalized_section >>

\* Variant of StartSection that goes on with the dict of the previous
\* section instead of a copy of initial_state.
StartSection_same_dict ==
    /\ pc = "loop"
    /\ idx <= Len(sections)
    /\ IF HasKeys(sections[idx])
       THEN /\ state' = [state EXCEPT
                            !.current_section = sections[idx].title,
                            !.current_section_instruction = sections[idx].instruction,
                            !.critique = None,
                            !.loop_count = 0]
            /\ tasks' = {"extractor"}
            /\ pc' = "streaming"
       ELSE /\ pc' = "crashed"
            /\ UNCHANGED << state, tasks >>
    /\ writes' = NoWrites
    /\ triggered' = {}
    /\ step' = 0
    /\ calls' = NoCalls
    /\ UNCHANGED << report, probe, llm, max_review_loops, loaded_docs, sections, idx,
                    completed_sections, finalized_section >>

\* One iteration of the for loop begins: the title and the instruction are
\* read from the section record (a KeyError when it has other keys), then a
\* fresh copy of initial_state is made and graph.stream is called, whose
\* entry point is the extractor.
StartSection ==
    /\ pc = "loop"
    /\ idx <= Len(sections)
    /\ IF HasKeys(sections[idx])
       THEN /\ state' = [InitialState EXCEPT
                            !.current_section = sections[idx].title,
                            !.current_section_instruction = sections[idx].instruction]
            /\ tasks' = {"extractor"}
            /\ pc' = "streaming"
       ELSE /\ pc' = "crashed"
            /\ UNCHANGED << state, tasks >>
    /\ writes' = NoWrites
    /\ triggered' = {}
    /\ step' = 0
    /\ calls' = NoCalls
    /\ UNCHANGED << report, probe, llm, max_review_loops, loaded_docs, sections, idx,
                    completed_sections, finalized_section >>

\* A node of the current superstep runs and its router is evaluated.
RunNode(node, resp, result) ==
    /\ pc = "streaming"
    /\ node \in tasks
    /\ tasks' = tasks \ {node}
    /\ calls' = [calls EXCEPT ![node] = @ + 1]
    /\ writes' = [writes EXCEPT ![node] = [result EXCEPT !.ok = resp.ok]]
    /\ IF result.raised
       THEN /\ pc' = "crashed"
            /\ triggered' = triggered
       ELSE /\ pc' = pc
            /\ triggered' = triggered \cup _build_graph(node, result.view)
    /\ UNCHANGED << report, probe, llm, max_review_loops, loaded_docs, sections, idx, state, step,
                    finalized_section >>

Extract ==
    \E resp \in ExtractorReplies(llm) :
        /\ RunNode("extractor", resp, extract(state, resp))
        /\ UNCHANGED completed_sections

Review ==
    \E resp \in ReviewerReplies(llm, calls["reviewer"]) :
        /\ RunNode("reviewer", resp, review(state, resp))
        /\ UNCHANGED completed_sections

Rewrite ==
    \E resp \in WriterReplies(llm) :
        /\ RunNode("writer", resp, rewrite(state, resp))
        /\ UNCHANGED completed_sections

GenerateTable ==
    \E resp \in TableReplies(llm) :
        /\ RunNode("table_generator", resp, generate_table(state, resp))
        /\ completed_sections' =
              IF resp.ok
              THEN AssignTables(completed_sections, state.current_section, resp.table)
              ELSE completed_sections

GenerateGraph ==
    \E resp \in GraphReplies(llm) :
        /\ RunNode("graph_generator", resp, generate_graph(state, resp))
        /\ UNCHANGED completed_sections

\* The state after the updates of the superstep's nodes are applied; the
\* loop body of run_analysis applies the same updates to its own copy.
Applied(s, w) ==
    [k \in StateKeys |->
        IF \E n \in Nodes : k \in w[n].keys
        THEN w[CHOOSE n \in Nodes : k \in w[n].keys].view[k]
        ELSE s[k]]

\* A node that returned the empty dict wrote to no key of the state.
EmptyUpdate(w) ==
    \E n \in Nodes : w[n].ran /\ ~ w[n].raised /\ w[n].keys = {}

\* The superstep ends: updates are applied, and the stream either ends (no
\* node scheduled), goes on, or raises when the superstep bound is used up.
\* For a node without any update the stream hands the loop body of
\* run_analysis either no chunk or a chunk whose value is None, depending on
\* the graph library; current_section_state.update(None) raises.
EndSuperstep ==
    /\ pc = "streaming"
    /\ tasks = {}
    /\ state' = Applied(state, writes)
    /\ writes' = NoWrites
    /\ step' = step + 1
    /\ \E none_chunk \in (IF EmptyUpdate(writes) THEN BOOLEAN ELSE {FALSE}) :
          IF none_chunk
          THEN /\ pc' = "crashed"
               /\ tasks' = {}
               /\ triggered' = triggered
          ELSE IF triggered = {}
               THEN /\ pc' = "finalize"
                    /\ tasks' = {}
                    /\ triggered' = {}
               ELSE IF step + 1 >= RecursionLimit
                    THEN /\ pc' = "crashed"
                         /\ tasks' = {}
                         /\ triggered' = triggered
                    ELSE /\ pc' = "streaming"
                         /\ tasks' = triggered
                         /\ triggered' = {}
    /\ UNCHANGED << report, probe, llm, max_review_loops, loaded_docs, sections, idx, calls,
                    completed_sections, finalized_section >>

\* The finalized_section record is built and yielded.
Finalize ==
    /\ pc = "finalize"
    /\ finalized_section' =
          Some([ section      |-> sections[idx].title,
                 instruction  |-> sections[idx].instruction,
                 content      |-> state.current_section_content,
                 references   |-> state.current_section_references,
                 tabular_data |-> state.tabular_data,
                 graph_specs  |-> state.graph_specs ])
    /\ pc' = "yielded"
    /\ UNCHANGED << report, probe, llm, max_review_loops, loaded_docs, sections, idx, state, tasks,
                    writes, triggered, step, calls, completed_sections >>

\* The consumer writes the record to the report (after a comma unless it is
\* the first) and asks for the next section: the generator resumes after the
\* yield, appends the record to the history and goes round the loop.
Resume ==
    /\ pc = "yielded"
    /\ report' = IF report.open
                 THEN [report EXCEPT
                          !.text = @ \o (IF report.first_section THEN <<>> ELSE << Comma >>)
                                     \o << Dumped(finalized_section[1]) >>,
                          !.first_section = FALSE]
                 ELSE report
    /\ completed_sections' = Append(completed_sections, finalized_section[1])
    /\ finalized_section' = None
    /\ idx' = idx + 1
    /\ pc' = "loop"
    /\ UNCHANGED << probe, llm, max_review_loops, loaded_docs, sections, state, tasks,
                    writes, triggered, step, calls >>

\* The for loop is exhausted: the generator ends and its consumer writes the
\* closing bracket.
Complete ==
    /\ pc = "loop"
    /\ idx > Len(sections)
    /\ pc' = "finished"
    /\ report' = IF report.open
                 THEN [report EXCEPT !.text = Append(@, CloseBracket)]
                 ELSE report
    /\ UNCHANGED << probe, llm, max_review_loops, loaded_docs, sections, idx, state, tasks,
                    writes, triggered, step, calls, completed_sections,
                    finalized_section >>

Next ==
    \/ StartAnalysis
    \/ StartSection
    \/ Extract
    \/ Review
    \/ Rewrite
    \/ GenerateTable
    \/ GenerateGraph
    \/ EndSuperstep
    \/ Finalize
    \/ Resume
    \/ Complete

Spec == Init /\ [][Next]_vars

\* The stream is driven by the consumer's loop and every node call returns:
\* a step that can be taken is eventually taken.
FairSpec == Spec /\ WF_vars(Next)

\* The same run with a deterministic stub in place of the model.
StubInit ==
    /\ llm \in StubLLMs
    /\ max_review_loops \in 0..MaxLoops
    /\ loaded_docs \in DocumentSets
    /\ sections \in SectionLists
    /\ pc = "start"
    /\ idx = 1
    /\ state = InitialState
    /\ tasks = {}
    /\ writes = NoWrites
    /\ triggered = {}
    /\ step = 0
    /\ calls = NoCalls
    /\ completed_sections = <<>>
    /\ finalized_section = None
    /\ probe = NoProbe
    /\ report = NoReport

StubSpec == StubInit /\ [][Next]_vars

\* ------------------------------------- direct calls of the Writer's methods
\* The states rewrite may be called with.
WriterStates ==
    { [InitialState EXCEPT !.current_section = t,
                           !.current_section_content = c.content,
                           !.current_section_references = c.references,
                           !.critique = q,
                           !.loop_count = n] :
        t \in {"", "Overview"},
        c \in { [content |-> "", references |-> <<>>],
                [content |-> "draft", references |-> << "a.txt p1" >>] },
        q \in {None} \cup { Some(x) : x \in Critiques },
        n \in 0..MaxLoops }

\* One call is prepared: rewrite on a state with the answer the model would
\* give, or _perform_targeted_search on documents and search terms.
WriterInit ==
    /\ llm = AnyLLM
    /\ max_review_loops = 0
    /\ loaded_docs = <<>>
    /\ sections = <<>>
    /\ pc = "probe"
    /\ idx = 1
    /\ tasks = {}
    /\ writes = NoWrites
    /\ triggered = {}
    /\ step = 0
    /\ calls = NoCalls
    /\ completed_sections = <<>>
    /\ finalized_section = None
    /\ report = NoReport
    /\ \/ /\ state \in WriterStates
          /\ \E r \in WriterResponses :
                probe = [NoProbe EXCEPT !.op = "rewrite", !.resp = r]
       \/ /\ state = InitialState
          /\ \E d \in SearchDocumentSets, t \in TermLists :
                probe = [NoProbe EXCEPT !.op = "_perform_targeted_search",
                                        !.documents = d, !.search_terms = t]

\* WriterNode.rewrite(state)
CallRewrite ==
    /\ pc = "probe"
    /\ probe.op = "rewrite"
    /\ pc' = "returned"
    /\ writes' = [writes EXCEPT !["writer"] =
                      [rewrite(state, probe.resp) EXCEPT !.ok = probe.resp.ok]]
    /\ probe' = [probe EXCEPT !.invoked = rewrite_invokes_chain(state),
                              !.message = rewrite_message(state, probe.resp)]
    /\ UNCHANGED << report, llm, max_review_loops, loaded_docs, sections, idx, state, tasks,
                    triggered, step, calls, completed_sections, finalized_section >>

\* WriterNode._perform_targeted_search(documents, search_terms)
CallSearch ==
    /\ pc = "probe"
    /\ probe.op = "_perform_targeted_search"
    /\ pc' = "returned"
    /\ probe' = [probe EXCEPT !.new_information =
                      _perform_targeted_search(probe.documents, probe.search_terms)]
    /\ UNCHANGED << report, llm, max_review_loops, loaded_docs, sections, idx, state, tasks,
                    writes, triggered, step, calls, completed_sections,
                    finalized_section >>

WriterNext == CallRewrite \/ CallSearch

WriterSpec == WriterInit /\ [][WriterNext]_vars

\* ------------------------------------------------- direct calls of extract
\* One call of extract is prepared: a state, a document set and the answer
\* the model would give.
ExtractorInit ==
    /\ llm = AnyLLM
    /\ max_review_loops = 0
    /\ loaded_docs \in DocumentSets
    /\ sections = <<>>
    /\ pc = "probe"
    /\ idx = 1
    /\ state \in WriterStates
    /\ tasks = {}
    /\ writes = NoWrites
    /\ triggered = {}
    /\ step = 0
    /\ calls = NoCalls
    /\ completed_sections = <<>>
    /\ finalized_section = None
    /\ report = NoReport
    /\ \E r \in ExtractorResponses :
          probe = [NoProbe EXCEPT !.op = "extract", !.resp = r]

\* ExtractorNode.extract(state)
CallExtract ==
    /\ pc = "probe"
    /\ probe.op = "extract"
    /\ pc' = "returned"
    /\ writes' = [writes EXCEPT !["extractor"] =
                      [extract(state, probe.resp) EXCEPT !.ok = probe.resp.ok]]
    /\ probe' = [probe EXCEPT !.invoked = extract_invokes_llm(state)]
    /\ UNCHANGED << report, llm, max_review_loops, loaded_docs, sections, idx, state, tasks,
                    triggered, step, calls, completed_sections, finalized_section >>

ExtractorSpec == ExtractorInit /\ [][CallExtract]_vars

TypeOK ==
    /\ max_review_loops \in 0..MaxLoops
    /\ pc \in {"start", "loop", "streaming", "finalize", "yielded", "finished", "crashed",
               "probe", "returned"}
    /\ tasks \subseteq Nodes
    /\ triggered \subseteq Nodes
    /\ step \in 0..RecursionLimit
    /\ state.loop_count \in Nat


\* ================================================================ claims
Streaming == pc = "streaming"
SuperstepEnds == pc = "streaming" /\ tasks = {}
Ran(node) == writes[node].ran
Invoked(node) == calls'[node] = calls[node] + 1

\* C1: within one section the Writer is invoked at most max_review_loops
\* times and the Reviewer at least once and at most max_review_loops + 1
\* times, whatever the outcome of each stage.
C1_InvocationBounds ==
    /\ calls["writer"] <= max_review_loops
    /\ calls["reviewer"] <= max_review_loops + 1
    /\ pc \in {"finalize", "yielded"} => calls["reviewer"] >= 1

\* C2: every traversal that starts at the extractor (for a section that has
\* a title) eventually reaches the terminal state, where run_analysis yields
\* the section.
C2_ReachesDone ==
    (pc = "streaming" /\ state.current_section # "") ~> (pc = "yielded")

\* C3: after a Reviewer step the Writer is the next stage exactly when the
\* critique is present, expand_on or remove_or_rephrase is non-empty and
\* loop_count < max_review_loops; otherwise the Table Generator is.
C3_ReviewRouting ==
    [][ (SuperstepEnds /\ Ran("reviewer") /\ pc' = "streaming") =>
          LET critique == state'.critique
              rewriteDue ==
                  /\ critique # None
                  /\ \/ critique[1].expand_on # <<>>
                     \/ critique[1].remove_or_rephrase # <<>>
                  /\ state'.loop_count < max_review_loops
          IN  /\ "writer" \in tasks' <=> rewriteDue
              /\ "table_generator" \in tasks' <=> ~rewriteDue ]_vars

\* C3 witness: a first review found nothing to expand or rephrase but named
\* search terms, budget remains, and the Table Generator is scheduled next.
C3_Witness ==
    /\ pc = "streaming"
    /\ tasks = {"table_generator"}
    /\ calls["reviewer"] = 1
    /\ calls["writer"] = 0
    /\ state.critique # None
    /\ state.critique[1].expand_on = <<>>
    /\ state.critique[1].remove_or_rephrase = <<>>
    /\ state.critique[1].search_terms # <<>>
    /\ state.loop_count < max_review_loops

\* C4: the stages of a section follow the pattern Extracting, Reviewing,
\* (Rewriting, Reviewing)*, Tabulating, Graphing, Done: the Extractor runs
\* once and first, the Table Generator runs only when every Writer step has
\* been followed by a Reviewer step, and tabulation is followed by graphing
\* and then Done.
C4_StagePattern ==
    /\ calls["extractor"] <= 1
    /\ (\E n \in Nodes \ {"extractor"} : calls[n] > 0) => calls["extractor"] = 1
    /\ calls["writer"] <= calls["reviewer"]
    /\ calls["reviewer"] <= calls["writer"] + 1
    /\ calls["table_generator"] > 0 => calls["reviewer"] = calls["writer"] + 1
    /\ calls["graph_generator"] <= calls["table_generator"]
    /\ pc \in {"finalize", "yielded"} =>
          /\ calls["graph_generator"] >= 1
          /\ calls["graph_generator"] = calls["table_generator"]

\* C5: after a Writer step that leaves loop_count = c the Reviewer is next
\* iff c < max_review_loops and the Table Generator is next iff
\* c >= max_review_loops, never both.
C5_WriterRouting ==
    [][ (SuperstepEnds /\ Ran("writer") /\ pc' = "streaming") =>
          /\ "reviewer" \in tasks' <=> state'.loop_count < max_review_loops
          /\ "table_generator" \in tasks' <=> state'.loop_count >= max_review_loops
          /\ ~ {"reviewer", "table_generator"} \subseteq tasks' ]_vars

\* C6: in every section traversal the Table Generator and the Graph
\* Generator are each invoked exactly once.
C6_TableAndGraphOnce ==
    /\ calls["table_generator"] <= 1
    /\ calls["graph_generator"] <= 1
    /\ pc \in {"finalize", "yielded"} =>
          /\ calls["table_generator"] = 1
          /\ calls["graph_generator"] = 1

\* C7: once the Table Generator has been invoked in a section, neither the
\* Reviewer nor the Writer is invoked again in that section.
C7_NoReviewAfterTable ==
    [][ (pc = "streaming" /\ calls["table_generator"] > 0) =>
          /\ ~ Invoked("reviewer")
          /\ ~ Invoked("writer") ]_vars

\* C8: at every point of a run at most one stage is scheduled to execute;
\* no superstep of the workflow graph runs two stages together.
C8_OneStageAtATime ==
    pc = "streaming" =>
        Cardinality(tasks \cup { n \in Nodes : Ran(n) }) <= 1

\* C9: loop_count is 0 at section start, grows by exactly 1 with every
\* Writer invocation (success, failure or skip), is changed by no other
\* stage and never decreases during a section.
C9_LoopCountPerWriter ==
    [][ /\ (pc = "loop" /\ pc' = "streaming") => state'.loop_count = 0
        /\ SuperstepEnds =>
              state'.loop_count =
                  state.loop_count + (IF Ran("writer") THEN 1 ELSE 0)
        /\ (pc = "streaming" /\ tasks # {}) =>
              state'.loop_count = state.loop_count ]_vars

\* C10: in every reachable state of a section traversal, and when the
\* section is finalized, 0 <= loop_count <= max_review_loops.
C10_LoopCountInBudget ==
    /\ 0 <= state.loop_count
    /\ state.loop_count <= max_review_loops
    /\ \A n \in Nodes :
          Ran(n) => /\ 0 <= writes[n].view.loop_count
                    /\ writes[n].view.loop_count <= max_review_loops

\* C10 witness: a section is finalized with the whole budget used.
C10_Witness ==
    /\ pc = "yielded"
    /\ max_review_loops = MaxLoops
    /\ state.loop_count = max_review_loops
    /\ calls["writer"] >= MaxLoops


Finalized == pc \in {"finalize", "yielded"}

Calls(e, r, w, t, g) ==
    [n \in Nodes |->
        CASE n = "extractor" -> e
          [] n = "reviewer" -> r
          [] n = "writer" -> w
          [] n = "table_generator" -> t
          [] n = "graph_generator" -> g]

\* C11: with max_review_loops = 0 the Writer is never invoked, however
\* actionable the critique; the section runs Extractor, Reviewer once, Table
\* Generator, Graph Generator.
C11_ZeroBudgetNeverRewrites ==
    max_review_loops = 0 =>
        /\ calls["writer"] = 0
        /\ calls["reviewer"] <= 1
        /\ calls["table_generator"] <= 1
        /\ calls["graph_generator"] <= 1
        /\ Finalized => calls = Calls(1, 1, 0, 1, 1)

\* C11 witness: a section is finalized with no budget although its only
\* review named things to expand on and to rephrase.
C11_Witness ==
    /\ max_review_loops = 0
    /\ pc = "yielded"
    /\ state.critique # None
    /\ state.critique[1].expand_on # <<>>
    /\ state.critique[1].remove_or_rephrase # <<>>
    /\ calls["writer"] = 0

RewriteScenario ==
    /\ max_review_loops = 1
    /\ llm.script = "actionable_then_empty"
    /\ Finalized

\* C12 as claimed: with max_review_loops = 1 and a stub whose first review is
\* actionable and whose second is empty, the section makes 1 Extractor call,
\* 2 Reviewer calls and 1 Writer call and ends with loop_count = 1.
C12_TwoReviews ==
    RewriteScenario =>
        /\ calls["extractor"] = 1
        /\ calls["reviewer"] = 2
        /\ calls["writer"] = 1
        /\ state.loop_count = 1

\* C12 as amended: in that scenario the section makes 1 Extractor call,
\* 1 Reviewer call and 1 Writer call and ends with loop_count = 1; the
\* rewrite uses the budget up and no second review takes place.
C12_OneReview ==
    RewriteScenario =>
        /\ calls["extractor"] = 1
        /\ calls["reviewer"] = 1
        /\ calls["writer"] = 1
        /\ state.loop_count = 1

\* C12 witness: the scenario has run to the yield of a rewritten section.
C12_Witness ==
    /\ RewriteScenario
    /\ pc = "yielded"
    /\ finalized_section[1].content = "rewritten"

\* C13: with max_review_loops = 1 and a stub whose first review returns the
\* empty critique, the section makes exactly 1 Extractor, 1 Reviewer,
\* 0 Writer, 1 Table Generator and 1 Graph Generator call and ends with
\* loop_count = 0.
C13_NoRewriteScenario ==
    (max_review_loops = 1 /\ llm.script = "empty" /\ Finalized) =>
        /\ calls = Calls(1, 1, 0, 1, 1)
        /\ state.loop_count = 0

\* C13 witness: that scenario has run to the yield, the empty critique in
\* the state and the draft untouched.
C13_Witness ==
    /\ max_review_loops = 1
    /\ llm.script = "empty"
    /\ pc = "yielded"
    /\ state.critique = Some(Critique(<<>>, <<>>, <<>>))
    /\ finalized_section[1].content = "draft"


\* The FinalizedSections emitted so far, the one being yielded included.
Emitted == completed_sections \o finalized_section

StubYielded ==
    /\ llm.script # "any"
    /\ pc = "yielded"

\* C14: the table the Table Generator successfully returned for a section,
\* the empty result included, is the tabular_data of the section's
\* FinalizedSection (here: the stub's table, whenever the table stage ran).
C14_TableReachesFinalizedSection ==
    (StubYielded /\ calls["table_generator"] >= 1) =>
        finalized_section[1].tabular_data = Some(llm.table)

\* C15: the graph spec the Graph Generator successfully produced for a
\* section is contained in the graph_specs of the section's FinalizedSection
\* (here: the stub's graph, whenever the graph stage ran).
C15_GraphReachesFinalizedSection ==
    (StubYielded /\ calls["graph_generator"] >= 1) =>
        \E i \in DOMAIN finalized_section[1].graph_specs :
            finalized_section[1].graph_specs[i] = llm.graph

AllTitled ==
    \A i \in DOMAIN sections : HasKeys(sections[i]) /\ sections[i].title # ""

\* C16: for a non-empty document set and a list of k SectionSpecs (each with
\* a title) run_analysis emits exactly k FinalizedSections, the i-th with the
\* title and instruction of the i-th SectionSpec.
C16_EmitsEverySection ==
    (loaded_docs # <<>> /\ AllTitled) =>
        /\ pc # "crashed"
        /\ pc = "finished" => Len(Emitted) = Len(sections)
        /\ Len(Emitted) <= Len(sections)
        /\ \A i \in DOMAIN Emitted :
              /\ Emitted[i].section = sections[i].title
              /\ Emitted[i].instruction = sections[i].instruction


\* C17: no stage of a section is invoked before every earlier section has
\* reached Done and its FinalizedSection has gone to the consumer and into
\* the history; while a record is being yielded (the consumer has not asked
\* for more) no stage is scheduled or invoked.
C17_SectionsStrictlySequential ==
    [][ /\ (\E n \in Nodes : Invoked(n)) =>
              /\ pc = "streaming"
              /\ finalized_section = None
              /\ Len(completed_sections) = idx - 1
        /\ pc = "yielded" =>
              /\ tasks = {}
              /\ calls' = calls
              /\ pc' # "streaming" ]_vars

\* C17 witness: the extractor of the second section has run, after the first
\* section was emitted and appended to the history.
C17_Witness ==
    /\ pc = "streaming"
    /\ idx = 2
    /\ calls["extractor"] = 1
    /\ Len(completed_sections) = 1
    /\ finalized_section = None

\* C18: at the entry of every section the working state has loop_count = 0,
\* no critique, no content, no references, no tabular_data and no
\* graph_specs, whatever the previous section left.
C18_FreshStateAtSectionEntry ==
    (pc = "streaming" /\ step = 0 /\ "extractor" \in tasks) =>
        /\ state.loop_count = 0
        /\ state.critique = None
        /\ state.current_section_content = ""
        /\ state.current_section_references = <<>>
        /\ state.tabular_data = None
        /\ state.graph_specs = <<>>
        /\ state.current_section = sections[idx].title

\* C18 witness: a second section is about to be extracted after a first one
\* that ended with rewritten content, references and a used budget.
C18_Witness ==
    /\ pc = "streaming"
    /\ step = 0
    /\ tasks = {"extractor"}
    /\ idx = 2
    /\ completed_sections[1].content = "rewritten"
    /\ completed_sections[1].references # <<>>


\* C19: whatever fails while a section is processed (a stage's model call,
\* or an input error such as an empty title), every later section is still
\* processed and emitted: the run never stops with sections left over.
C19_FailureDoesNotStopTheRun ==
    pc = "crashed" => idx >= Len(sections)

\* C20 as claimed: given an empty document set, run_analysis ends having
\* emitted one FinalizedSection with empty content for each requested section.
C20_EmptyDocumentsEmitEmptySections ==
    (loaded_docs = <<>> /\ pc = "finished") =>
        /\ Len(Emitted) = Len(sections)
        /\ \A i \in DOMAIN Emitted : Emitted[i].content = ""

\* C20 as amended: given an empty document set, run_analysis ends without
\* crashing, invokes no stage and emits no FinalizedSection at all.
C20_EmptyDocumentsEmitNothing ==
    loaded_docs = <<>> =>
        /\ pc \in {"start", "finished"}
        /\ Emitted = <<>>
        /\ calls = NoCalls

\* C20 witness: a run asked for sections over no documents has ended.
C20_Witness ==
    /\ loaded_docs = <<>>
    /\ pc = "finished"
    /\ Len(sections) >= 1
    /\ sections[1].title # ""

\* A titled section is processed with a model whose extraction calls fail.
ExtractionFails ==
    /\ llm = NoExtractionLLM
    /\ pc \in {"streaming", "finalize", "yielded"}
    /\ state.current_section # ""

Failed(node) == Ran(node) /\ ~ writes[node].raised /\ ~ writes[node].ok

\* C22: when the Table Generator fails, tabular_data stays null and the
\* Graph Generator runs next; when the Graph Generator fails as the last
\* stage, graph_specs stays empty and the section reaches Done, to be emitted.
C22_TableOrGraphFailureStillEmits ==
    [][/\ (SuperstepEnds /\ Failed("table_generator")) =>
             /\ state'.tabular_data = None
             /\ pc' = "streaming"
             /\ "graph_generator" \in tasks'
       /\ (SuperstepEnds /\ Failed("graph_generator") /\ triggered = {}) =>
             /\ state'.graph_specs = <<>>
             /\ pc' = "finalize"]_vars

\* The fields of the section state a stage can contribute to.
SectionFields ==
    {"current_section_content", "current_section_references", "critique",
     "loop_count", "tabular_data", "graph_specs"}

\* C23: a failing Extractor, Writer, Table Generator or Graph Generator
\* contributes nothing to the section state: its update names none of
\* content, references, critique, loop_count, tabular_data and graph_specs,
\* and whichever of them changes when the superstep is applied was written by
\* a stage of that superstep whose call succeeded.
C23_FailedStageContributesNothing ==
    [][SuperstepEnds =>
          /\ \A n \in Nodes \ {"reviewer"} :
                Failed(n) => /\ writes[n].keys \cap SectionFields = {}
                             /\ writes[n].view = state
          /\ \A k \in SectionFields :
                state'[k] # state[k] =>
                    \E n \in Nodes : Ran(n) /\ writes[n].ok /\ k \in writes[n].keys
          /\ (\A n \in Nodes : Ran(n) => Failed(n)) => state' = state]_vars

\* C23 witness: a rewrite of non-empty content from an actionable critique
\* has failed, after an earlier rewrite had succeeded.
C23_Witness ==
    /\ SuperstepEnds
    /\ Failed("writer")
    /\ Actionable(state.critique)
    /\ state.current_section_content = "rewritten"
    /\ state.loop_count = 1

\* C24: content and references are written together: an update that carries
\* one carries the other, and when the content changes as a superstep is
\* applied, content and references are both those of one stage's update.
C24_ContentWithReferences ==
    [][SuperstepEnds =>
          /\ \A n \in Nodes :
                Ran(n) => ("current_section_content" \in writes[n].keys
                            <=> "current_section_references" \in writes[n].keys)
          /\ state'.current_section_content # state.current_section_content =>
                \E n \in {"extractor", "writer"} :
                    /\ Ran(n)
                    /\ state'.current_section_content = writes[n].view.current_section_content
                    /\ state'.current_section_references = writes[n].view.current_section_references
                    /\ "current_section_references" \in writes[n].keys]_vars

\* C24 witness: a rewrite has returned new content with new references.
C24_Witness ==
    /\ SuperstepEnds
    /\ Ran("writer")
    /\ "current_section_content" \in writes["writer"].keys
    /\ writes["writer"].view.current_section_content # state.current_section_content
    /\ writes["writer"].view.current_section_references # state.current_section_references

\* What the Table and Graph Generators must leave alone.
ReviewedFields ==
    {"current_section_content", "current_section_references", "loop_count"}

\* C25: the Table and Graph Generators leave content, references and
\* loop_count unchanged, so a superstep in which only they ran changes none
\* of the three, and the content and references of the FinalizedSection are
\* those the state held when the last Extractor, Reviewer or Writer step was
\* applied.
C25_GeneratorsKeepContent ==
    [][/\ SuperstepEnds =>
             /\ \A n \in {"table_generator", "graph_generator"} :
                   Ran(n) => /\ writes[n].keys \cap ReviewedFields = {}
                             /\ \A k \in ReviewedFields : writes[n].view[k] = state[k]
             /\ (~ Ran("extractor") /\ ~ Ran("reviewer") /\ ~ Ran("writer")) =>
                   \A k \in ReviewedFields : state'[k] = state[k]
       /\ pc' = "yielded" =>
             /\ finalized_section'[1].content = state.current_section_content
             /\ finalized_section'[1].references = state.current_section_references]_vars

\* C25 witness: a record is emitted whose content was rewritten before the
\* generators ran.
C25_Witness ==
    /\ pc = "yielded"
    /\ calls["writer"] >= 1
    /\ calls["table_generator"] >= 1
    /\ calls["graph_generator"] >= 1
    /\ finalized_section[1].content = "rewritten"
    /\ finalized_section[1].references # <<>>

\* C27: the history is append-only and its entries are immutable: when a
\* section starts, the history holds the records emitted before it, in
\* order, and no step changes a field of a record already emitted, whatever
\* the title of the section being processed.
C27_HistoryImmutable ==
    [][/\ Len(Emitted') >= Len(Emitted)
       /\ \A i \in DOMAIN Emitted : Emitted'[i] = Emitted[i]
       /\ (pc = "loop" /\ pc' = "streaming") =>
             /\ Len(completed_sections) = idx - 1
             /\ \A i \in DOMAIN completed_sections :
                   completed_sections[i].section = sections[i].title]_vars

\* A direct call of rewrite for a titled section has returned.
Rewritten ==
    /\ pc = "returned"
    /\ probe.op = "rewrite"
    /\ state.current_section # ""

\* The call was a no-op: no model call, an update without content,
\* references or loop_count, and a message that is not of error type.
WriterNoOp ==
    /\ ~ probe.invoked
    /\ ~ writes["writer"].raised
    /\ writes["writer"].keys = {"messages"}
    /\ probe.message \notin {"error", "none"}

\* C28 as claimed: a Writer invocation whose critique is absent, or whose
\* expand_on and remove_or_rephrase are both empty, is a no-op.
C28_NoActionableCritiqueIsNoOp ==
    (Rewritten /\ ~ Actionable(state.critique)) => WriterNoOp

\* C28 as amended: a Writer invocation for a titled section whose critique is
\* absent is a no-op: it makes no model call, leaves content, references and
\* loop_count unchanged and records a message that is not of error type.
C28_AbsentCritiqueIsNoOp ==
    (Rewritten /\ state.critique = None) => WriterNoOp

\* C28 witness: rewrite was called without a critique on content that a
\* model call would have rewritten.
C28_Witness ==
    /\ Rewritten
    /\ state.critique = None
    /\ state.current_section_content = "draft"
    /\ state.loop_count = 1
    /\ probe.resp.ok
    /\ probe.message = "info"

\* A direct call of _perform_targeted_search has returned.
Searched ==
    /\ pc = "returned"
    /\ probe.op = "_perform_targeted_search"

\* Two characters that are equal up to case.
SameLetter(a, b) == a = b \/ {a, b} = {"a", "A"}

\* The term occurs in the content, case-insensitively.
Occurs(term, content) ==
    \E i \in 0..(Len(content) - Len(term)) :
        \A k \in 1..Len(term) : SameLetter(term[k], content[i + k])

\* C29: for every document set and every list of search terms, the empty
\* list included, if no term occurs case-insensitively in any document's
\* content, the new-information block is exactly the text "No new
\* information found for search terms.".
C29_NoMatchGivesSentinel ==
    (/\ Searched
     /\ \A j \in DOMAIN probe.search_terms, i \in DOMAIN probe.documents :
           ~ Occurs(probe.search_terms[j], probe.documents[i].content))
    => probe.new_information = NewInformation(<<>>, NothingFoundText)

\* The pairs (term, document) in the order term first, document second.
Pairs(documents, search_terms) ==
    [k \in 1..(Len(search_terms) * Len(documents)) |->
        [term |-> search_terms[((k - 1) \div Len(documents)) + 1],
         doc  |-> documents[((k - 1) % Len(documents)) + 1]]]

\* C30: the targeted search yields exactly one snippet entry for each pair
\* (term, document) such that the term occurs case-insensitively in the
\* document's content, in the order of the terms and then of the documents;
\* each entry carries the first characters of the content, 200 at most; a
\* pair without a match yields no entry.
C30_OneSnippetPerMatch ==
    Searched =>
        LET found == probe.new_information.found_info
            matches == SelectSeq(Pairs(probe.documents, probe.search_terms),
                                 LAMBDA p : Occurs(p.term, p.doc.content))
        IN  /\ Len(found) = Len(matches)
            /\ \A k \in DOMAIN found :
                  /\ found[k].term = matches[k].term
                  /\ found[k].filename = matches[k].doc.filename
                  /\ Len(found[k].snippet) <= SnippetLen
                  /\ Len(found[k].snippet) <= Len(matches[k].doc.content)
                  /\ \/ Len(found[k].snippet) = SnippetLen
                     \/ Len(found[k].snippet) = Len(matches[k].doc.content)
                  /\ \A c \in DOMAIN found[k].snippet :
                        found[k].snippet[c] = matches[k].doc.content[c]

\* C30 witness: two terms over two documents gave three entries, one for a
\* term that differs in case from the content, one cut to 200 characters
\* that do not contain the term, and none for the pair without a match.
C30_Witness ==
    /\ Searched
    /\ probe.search_terms = << << "A" >>, << "b" >> >>
    /\ Len(probe.documents) = 2
    /\ probe.documents[1].content = << "a" >>
    /\ probe.documents[2].content = LongText
    /\ Len(probe.new_information.found_info) = 3
    /\ probe.new_information.found_info[3].term = << "b" >>
    /\ Len(probe.new_information.found_info[3].snippet) = SnippetLen

\* A direct call of extract has returned.
Extracted ==
    /\ pc = "returned"
    /\ probe.op = "extract"

\* The call's answer was parsed.
Parsed ==
    /\ Extracted
    /\ probe.invoked
    /\ probe.resp.ok

\* C31 as claimed: when the parsed answer has no content key the section
\* content is set to "No information found for this section."; when it has
\* no references key, references is set to the empty sequence.
C31_MissingContentGivesPlaceholder ==
    Parsed =>
        /\ probe.resp.content = None =>
              writes["extractor"].view.current_section_content = NoInformationText
        /\ probe.resp.references = None =>
              writes["extractor"].view.current_section_references = <<>>

\* C31 as amended: when the parsed answer has no content key the section
\* content is set to the empty string; when it has no references key,
\* references is set to the empty sequence; a key that is present is stored
\* as it is.
C31_MissingContentGivesEmptyString ==
    Parsed =>
        /\ writes["extractor"].keys =
              {"current_section_content", "current_section_references", "messages"}
        /\ writes["extractor"].view.current_section_content =
              IF probe.resp.content = None THEN "" ELSE probe.resp.content[1]
        /\ writes["extractor"].view.current_section_references =
              IF probe.resp.references = None THEN <<>> ELSE probe.resp.references[1]

\* C31 witness: an answer without a content key was parsed for a section
\* that held content and references before.
C31_Witness ==
    /\ Parsed
    /\ probe.resp.content = None
    /\ probe.resp.references = None
    /\ state.current_section_content = "draft"
    /\ state.current_section_references # <<>>
    /\ writes["extractor"].view.current_section_content = ""

\* C32: called with an empty title or an empty document set, extract signals
\* an input error at once: it raises before any model call and returns no
\* update, so neither content nor references is written.
C32_InputErrorBeforeModelCall ==
    (Extracted /\ (state.current_section = "" \/ loaded_docs = <<>>)) =>
        /\ writes["extractor"].raised
        /\ ~ probe.invoked
        /\ writes["extractor"].keys = {}
        /\ writes["extractor"].view = state

\* C32 witness: extract was called without a title on documents for which
\* the model had an answer.
C32_Witness ==
    /\ Extracted
    /\ state.current_section = ""
    /\ loaded_docs # <<>>
    /\ probe.resp.ok
    /\ probe.resp.content = Some("draft")
    /\ writes["extractor"].raised

\* C33: after a successful rewrite, content and references are exactly what
\* the model's answer carried: the update holds both, and the new reference
\* list replaces the old one, with no element of the old list that the answer
\* did not give.
C33_RewriteReplacesReferences ==
    (Rewritten /\ probe.invoked /\ probe.resp.ok) =>
        /\ {"current_section_content", "current_section_references"}
              \subseteq writes["writer"].keys
        /\ writes["writer"].view.current_section_content = probe.resp.content
        /\ writes["writer"].view.current_section_references = probe.resp.references
        /\ \A i \in DOMAIN state.current_section_references :
              (\A j \in DOMAIN probe.resp.references :
                  probe.resp.references[j] # state.current_section_references[i])
              => \A j \in DOMAIN writes["writer"].view.current_section_references :
                    writes["writer"].view.current_section_references[j]
                        # state.current_section_references[i]

\* C33 witness: a rewrite of content with a reference succeeded with an
\* answer that gives another reference.
C33_Witness ==
    /\ Rewritten
    /\ probe.invoked
    /\ probe.resp.ok
    /\ state.current_section_references = << "a.txt p1" >>
    /\ probe.resp.references = << "a.txt p2" >>
    /\ writes["writer"].view.current_section_references = << "a.txt p2" >>

\* C34: the tabular_data the Graph Generator passes to the model is the
\* table the Table Generator produced for the same section (here: the stub's
\* table, whenever the table stage ran in an earlier superstep).
C34_GraphGetsSectionTable ==
    (/\ llm.script # "any"
     /\ Streaming
     /\ Ran("graph_generator")
     /\ ~ Ran("table_generator")
     /\ calls["table_generator"] >= 1)
    => graph_tabular_data(writes["graph_generator"].view) = Some(llm.table)

\* C36: with the default section list of run_portfolio_analysis, run_analysis
\* accepts every section record it is handed and emits one FinalizedSection
\* per default section, in list order.
C36_DefaultSectionsAccepted ==
    sections = DEFAULT_SECTIONS_TO_ANALYZE =>
        /\ pc # "crashed"
        /\ pc = "finished" => Len(Emitted) = Len(sections)
        /\ \A i \in DOMAIN Emitted : Emitted[i].section = sections[i].name

\* The report is a JSON array of k objects, those of the given records.
JsonArrayOf(text, records) ==
    LET k == Len(records)
    IN  /\ Len(text) = IF k = 0 THEN 2 ELSE 2 * k + 1
        /\ text[1] = OpenBracket
        /\ text[Len(text)] = CloseBracket
        /\ \A i \in 1..k :
              /\ text[2 * i].kind = "object"
              /\ text[2 * i].object[1].section = records[i].section
        /\ \A i \in 1..(k - 1) : text[2 * i + 1] = Comma

\* C37: the report written by run_portfolio_analysis is a well-formed JSON
\* array after any number k of emitted sections: once the run is over it is
\* an opening bracket, the k section objects in emission order separated by
\* k - 1 commas, and a closing bracket; while the run goes on it never
\* ends with a comma and holds no closing bracket.
C37_ReportIsJsonArray ==
    report.open =>
        /\ report.text[1] = OpenBracket
        /\ report.text[Len(report.text)] # Comma
        /\ pc \notin {"finished", "crashed"} =>
              \A i \in DOMAIN report.text : report.text[i] # CloseBracket
        /\ pc \in {"finished", "crashed"} =>
              JsonArrayOf(report.text, completed_sections)

\* The same for the runs that end without an error.
C37_FinishedReportIsJsonArray ==
    report.open =>
        /\ report.text[1] = OpenBracket
        /\ report.text[Len(report.text)] # Comma
        /\ pc # "finished" =>
              \A i \in DOMAIN report.text : report.text[i] # CloseBracket
        /\ pc = "finished" => JsonArrayOf(report.text, completed_sections)

====
